---- MODULE Spec2Model ----
(***************************************************************************)
(* A model of the Copilot adapter of claude-code-telegram:                 *)
(*   - CopilotSDKManager (src/src/claude/copilot_sdk_integration.py): the  *)
(*     long-lived client, the session map, execute_command, forget_session *)
(*     and shutdown, with execute_command split at its await points;       *)
(*   - the permission / ask-user hooks that execute_command registers;     *)
(*   - CopilotProcessManager (src/src/claude/copilot_integration.py): the  *)
(*     CLI subprocess path and the active-process table.                   *)
(* Every coroutine runs on one cooperative event loop, so one action is    *)
(* the code between two suspension points (await).                         *)
(***************************************************************************)
EXTENDS Naturals, Sequences, FiniteSets, TLC

\* ------------------------------------------------------------------ bounds
\* Number of execute_command invocations on one CopilotSDKManager; they may
\* all be in flight at once.
MaxCalls == 2
\* Number of permission / ask-user requests the SDK raises on one session.
MaxReqs == 2
\* Number of execute_command invocations on one CopilotProcessManager.
MaxProcs == 2

\* ------------------------------------------------------------ value domains
\* Python's None.
None == "None"
\* Truthiness of an Optional[str]: None and "" are falsy.
Truthy(x) == x # None /\ x # ""

Users == {1, 2}
Dirs == {"/w1"}
Calls == 1..MaxCalls

VARIABLES
    \* ---- CopilotSDKManager
    _client,        \* self._client: a client handle or None
    _client_lock,   \* self._client_lock: the set of calls holding it (at most one)
    _session_map,   \* self._session_map: a dict, key -> session id
    calls,          \* the execute_command invocations, one record per slot
    client_state,   \* the CopilotClient objects still referenced: handle ->
                    \* [state, stops (the number of stop() calls on it)]
    shutdown_pc,    \* the shutdown() coroutine: "idle" or "stopping"
    shutdown_seen,  \* history: shutdown() was called at least once
    \* ---- the hooks execute_command registers on a session
    stream_callback,  \* whether execute_command was given a stream_callback
    hooks,            \* the handler invocations, one record per request
    \* ---- CopilotProcessManager
    active_processes, \* self.active_processes: the process ids, in insertion order
    cli,              \* the CLI execute_command invocations and their subprocesses
    kill_all,         \* the kill_all_processes() coroutine
    \* ---- the pure helpers of CopilotProcessManager
    build,            \* _build_command: its arguments and the list it returned
    find,             \* _find_session_id_for_directory: the disk, the result
    event,            \* event_handler: the event, the updates it emitted
    hook_input,       \* _on_error_occurred: its input, the decision returned
    full              \* the execute_full invocations

sdkVars == <<_client, _client_lock, _session_map, calls, client_state,
             shutdown_pc, shutdown_seen>>
hookVars == <<stream_callback, hooks>>
cliVars == <<active_processes, cli, kill_all>>
fnVars == <<build, find, event, hook_input>>
fullVars == <<full>>

vars == <<sdkVars, hookVars, cliVars, fnVars, fullVars>>

\* ------------------------------------------------------------ dict helpers
\* dict.get(key) with the default None.
DictGet(m, k) == IF k \in DOMAIN m THEN m[k] ELSE None

\* dict[key] = value.
DictSet(m, k, v) == [x \in (DOMAIN m) \cup {k} |-> IF x = k THEN v ELSE m[x]]

\* A pop that drops every entry.
DictPopAll(m, k) == [x \in {} |-> None]

\* dict.pop(key, None): no error when the key is missing.
DictPop(m, k) == [x \in (DOMAIN m) \ {k} |-> m[x]]

\* f"{user_id}:{working_directory}": user_id prints without ':', so the text
\* determines the pair; the key is kept as the pair.
_session_key(user_id, working_directory) == <<user_id, working_directory>>

Keys == {_session_key(u, d) : u \in Users, d \in Dirs}

\* ------------------------------------------------------------ SDK objects
\* Object identities and session ids are opaque: only equality is observed.
\* A new object takes the first name that nothing refers to any more.
ClientHandle(n) == "c" \o ToString(n)
SessionId(n) == "s" \o ToString(n)

InFlight(c) == calls[c].pc \notin {"idle", "returned", "raised"}

ClientsInUse == ({_client} \cup {calls[c].client : c \in Calls}) \ {None}
SessionsInUse ==
    {_session_map[k] : k \in DOMAIN _session_map}
      \cup {calls[c].session : c \in Calls}
      \cup {calls[c].response_session_id : c \in Calls}
      \cup UNION {{calls[c].sdk[i].id : i \in 1..Len(calls[c].sdk)} : c \in Calls}

\* CopilotClient(): a new client object.
NewClient ==
    ClientHandle(CHOOSE n \in 1..(MaxCalls + 2) :
        /\ ClientHandle(n) \notin ClientsInUse
        /\ \A m \in 1..(n - 1) : ClientHandle(m) \in ClientsInUse)

\* The session id of a session the SDK creates: different from every id held.
NewSession ==
    SessionId(CHOOSE n \in 1..(2 * MaxCalls + Cardinality(Keys) + 1) :
        /\ SessionId(n) \notin SessionsInUse
        /\ \A m \in 1..(n - 1) : SessionId(m) \in SessionsInUse)

NewCall == [pc |-> "idle", user_id |-> 1, working_directory |-> "/w1",
            session_id |-> None, continue_session |-> FALSE,
            client |-> None, session |-> None, sdk |-> <<>>,
            outcome |-> "none", response_session_id |-> None]

\* What is kept of an invocation once it has returned or raised: whose it
\* was, and the response (its session_id) or the exception.
Finished(rec, pc, outcome, sid) ==
    [NewCall EXCEPT !.pc = pc, !.user_id = rec.user_id,
                    !.working_directory = rec.working_directory,
                    !.outcome = outcome, !.response_session_id = sid]

CallKey(c) == _session_key(calls[c].user_id, calls[c].working_directory)

\* The client objects dropped by this step are forgotten.
Referenced(cs, client, cls) ==
    LET used == ({client} \cup {cls[c].client : c \in Calls}) \ {None}
    IN  [h \in used |-> cs[h]]

\* ------------------------------------------------------------ execute_command
\* A resolution that never consults the session map.
ResolveSessionIdNoMap(session_id, continue_session, stored) ==
    IF Truthy(session_id) THEN session_id ELSE None

\* copilot_session_id = session_id or (map.get(key) if continue_session else None)
ResolveSessionId(session_id, continue_session, stored) ==
    IF Truthy(session_id) THEN session_id
    ELSE IF continue_session THEN stored ELSE None

\* A resume decision that ignores continue_session.
WantsResumeAnyId(copilot_session_id, continue_session) ==
    Truthy(copilot_session_id)

\* if copilot_session_id and continue_session: resume, else create.
WantsResume(copilot_session_id, continue_session) ==
    Truthy(copilot_session_id) /\ continue_session

\* The code from the return of _get_client to the first await on the SDK:
\* the session id is resolved against the map as it is now, and
\* resume_session or create_session is called. _get_client returns
\* self._client as it is then: None when shutdown() cleared it while start()
\* was awaited; the attribute lookup on None then raises inside the try, for
\* the resume and for the create that follows it, and the call ends with
\* ClaudeProcessError.
OpenSession(rec, h) ==
    LET stored == DictGet(_session_map,
                          _session_key(rec.user_id, rec.working_directory))
        sid == ResolveSessionId(rec.session_id, rec.continue_session, stored)
    IN  IF h = None
        THEN Finished(rec, "raised", "ClaudeProcessError", None)
        ELSE IF WantsResume(sid, rec.continue_session)
        THEN [rec EXCEPT !.client = h,
                         !.sdk = <<[op |-> "resume_session", id |-> sid]>>,
                         !.pc = "resume_session"]
        ELSE [rec EXCEPT !.client = h,
                         !.sdk = <<[op |-> "create_session", id |-> None]>>,
                         !.pc = "create_session"]

\* The explicit session_id arguments a caller may pass: none, or an id that
\* was not created through this manager (e.g. kept by the caller from an
\* earlier process).
SessionIdArgs == {None, "s0"}

\* A _get_client whose check for an existing client is missing.
ClientMissingAlways(client) == TRUE

\* if self._client is None
ClientMissing(client) == client = None

\* _get_client once the lock is acquired. With a client present it returns at
\* once and execute_command goes on to open the session; otherwise it
\* constructs the client, stores it, and awaits start() holding the lock.
_get_client(c, rec) ==
    IF ClientMissing(_client)
    THEN LET h == NewClient
             cls == [calls EXCEPT ![c] = [rec EXCEPT !.pc = "start", !.client = h]]
         IN  /\ _client' = h
             /\ _client_lock' = {c}
             /\ calls' = cls
             /\ client_state' =
                  Referenced([x \in (DOMAIN client_state) \cup {h} |->
                                 IF x = h THEN [state |-> "starting", stops |-> 0]
                                 ELSE client_state[x]],
                             h, cls)
    ELSE /\ calls' = [calls EXCEPT ![c] = OpenSession(rec, _client)]
         /\ UNCHANGED <<_client, _client_lock, client_state>>

\* A caller invokes execute_command. The coroutine runs to its first
\* suspension: the lock when it is held, else start() or the SDK call.
\* Invocations are numbered in the order they begin; users being
\* interchangeable, the first one is user 1's.
ExecBegin(c, u, d, sid, cont) ==
    /\ calls[c].pc = "idle"
    /\ \A b \in Calls : b < c => calls[b].pc # "idle"
    /\ c = 1 => u = 1
    /\ LET rec == [NewCall EXCEPT !.pc = "get_client",
                     !.user_id = u, !.working_directory = d,
                     !.session_id = sid, !.continue_session = cont]
       IN  IF _client_lock = {}
           THEN _get_client(c, rec)
           ELSE /\ calls' = [calls EXCEPT ![c] = rec]
                /\ UNCHANGED <<_client, _client_lock, client_state>>
    /\ UNCHANGED <<_session_map, shutdown_pc, shutdown_seen>>
    /\ UNCHANGED <<hookVars, cliVars, fnVars, fullVars>>

\* The lock is released to a call waiting in "async with self._client_lock".
LockAcquired(c) ==
    /\ calls[c].pc = "get_client"
    /\ _client_lock = {}
    /\ _get_client(c, calls[c])
    /\ UNCHANGED <<_session_map, shutdown_pc, shutdown_seen>>
    /\ UNCHANGED <<hookVars, cliVars, fnVars, fullVars>>

\* start() returns: the lock is released and the client handed out.
StartOk(c) ==
    /\ calls[c].pc = "start"
    /\ _client_lock = {c}
    /\ _client_lock' = {}
    /\ calls' = [calls EXCEPT ![c] = OpenSession(calls[c], _client)]
    /\ client_state' =
         Referenced([client_state EXCEPT ![calls[c].client].state = "started"],
                    _client, calls')
    /\ UNCHANGED <<_client, _session_map, shutdown_pc, shutdown_seen>>
    /\ UNCHANGED <<hookVars, cliVars, fnVars, fullVars>>

\* start() raises: the lock is released, self._client keeps the client that
\* never started, and the error leaves execute_command (the call is outside
\* its try block).
StartFail(c) ==
    /\ calls[c].pc = "start"
    /\ _client_lock = {c}
    /\ _client_lock' = {}
    /\ calls' = [calls EXCEPT ![c] = Finished(calls[c], "raised", "StartError", None)]
    /\ client_state' =
         Referenced([client_state EXCEPT ![calls[c].client].state = "start_failed"],
                    _client, calls')
    /\ UNCHANGED <<_client, _session_map, shutdown_pc, shutdown_seen>>
    /\ UNCHANGED <<hookVars, cliVars, fnVars, fullVars>>

\* session.on(event_handler) and the send: the call now awaits send_and_wait.
Sending(rec, sid) == [rec EXCEPT !.session = sid, !.pc = "send_and_wait"]

\* resume_session returns the session with the id asked for.
ResumeOk(c) ==
    /\ calls[c].pc = "resume_session"
    /\ calls' = [calls EXCEPT ![c] = Sending(calls[c], calls[c].sdk[1].id)]
    /\ UNCHANGED <<_client, _client_lock, _session_map, client_state,
                   shutdown_pc, shutdown_seen>>
    /\ UNCHANGED <<hookVars, cliVars, fnVars, fullVars>>

\* A resume failure that is not recovered: the call gives up.
ResumeFailedAbort(rec) == Finished(rec, "raised", "ClaudeProcessError", None)

\* except Exception: log, then create_session.
ResumeFailedFallback(rec) ==
    [rec EXCEPT !.sdk = Append(@, [op |-> "create_session", id |-> None]),
                !.pc = "create_session"]

\* resume_session raises (any Exception).
ResumeFail(c) ==
    /\ calls[c].pc = "resume_session"
    /\ calls' = [calls EXCEPT ![c] = ResumeFailedFallback(calls[c])]
    /\ client_state' = Referenced(client_state, _client, calls')
    /\ UNCHANGED <<_client, _client_lock, _session_map,
                   shutdown_pc, shutdown_seen>>
    /\ UNCHANGED <<hookVars, cliVars, fnVars, fullVars>>

\* A create_session whose new session is stored at once.
CreateOkStores(c) ==
    /\ calls[c].pc = "create_session"
    /\ calls' = [calls EXCEPT ![c] = Sending(calls[c], NewSession)]
    /\ _session_map' = DictSet(_session_map, CallKey(c), NewSession)
    /\ UNCHANGED <<_client, _client_lock, client_state,
                   shutdown_pc, shutdown_seen>>
    /\ UNCHANGED <<hookVars, cliVars, fnVars, fullVars>>

\* create_session returns a session with a fresh id.
CreateOk(c) ==
    /\ calls[c].pc = "create_session"
    /\ calls' = [calls EXCEPT ![c] = Sending(calls[c], NewSession)]
    /\ UNCHANGED <<_client, _client_lock, _session_map, client_state,
                   shutdown_pc, shutdown_seen>>
    /\ UNCHANGED <<hookVars, cliVars, fnVars, fullVars>>

\* except asyncio.TimeoutError -> ClaudeTimeoutError;
\* except Exception -> ClaudeProcessError.
Surfaced(e) == IF e = "TimeoutError" THEN "ClaudeTimeoutError"
               ELSE "ClaudeProcessError"

Errors == {"TimeoutError", "Exception"}

\* create_session raises e.
CreateFail(c, e) ==
    /\ calls[c].pc = "create_session"
    /\ calls' = [calls EXCEPT ![c] = Finished(calls[c], "raised", Surfaced(e), None)]
    /\ client_state' = Referenced(client_state, _client, calls')
    /\ UNCHANGED <<_client, _client_lock, _session_map,
                   shutdown_pc, shutdown_seen>>
    /\ UNCHANGED <<hookVars, cliVars, fnVars, fullVars>>

\* A store that rebuilds the map around the one key.
StoreOnly(m, k, v) == [x \in {k} |-> v]

\* A store that keeps an entry already present (dict.setdefault).
StoreIfAbsent(m, k, v) == IF k \in DOMAIN m THEN m ELSE DictSet(m, k, v)

\* self._session_map[key] = new_session_id
StoreSession(m, k, v) == DictSet(m, k, v)

\* send_and_wait returns: the session id is stored and the response returned.
SendOk(c) ==
    /\ calls[c].pc = "send_and_wait"
    /\ _session_map' = StoreSession(_session_map, CallKey(c), calls[c].session)
    /\ calls' = [calls EXCEPT ![c] =
                    Finished(calls[c], "returned", "response", calls[c].session)]
    /\ client_state' = Referenced(client_state, _client, calls')
    /\ UNCHANGED <<_client, _client_lock, shutdown_pc, shutdown_seen>>
    /\ UNCHANGED <<hookVars, cliVars, fnVars, fullVars>>

\* A failure path that also drops the key's stored session.
SendFailForgets(c, e) ==
    /\ calls[c].pc = "send_and_wait"
    /\ calls' = [calls EXCEPT ![c] = Finished(calls[c], "raised", Surfaced(e), None)]
    /\ _session_map' = DictPop(_session_map, CallKey(c))
    /\ client_state' = Referenced(client_state, _client, calls')
    /\ UNCHANGED <<_client, _client_lock, shutdown_pc, shutdown_seen>>
    /\ UNCHANGED <<hookVars, cliVars, fnVars, fullVars>>

\* wait_for times out (TimeoutError) or send_and_wait raises (Exception).
SendFail(c, e) ==
    /\ calls[c].pc = "send_and_wait"
    /\ calls' = [calls EXCEPT ![c] = Finished(calls[c], "raised", Surfaced(e), None)]
    /\ client_state' = Referenced(client_state, _client, calls')
    /\ UNCHANGED <<_client, _client_lock, _session_map,
                   shutdown_pc, shutdown_seen>>
    /\ UNCHANGED <<hookVars, cliVars, fnVars, fullVars>>

\* ------------------------------------------------------------ forget_session
forget_session(user_id, working_directory) ==
    /\ _session_map' = DictPop(_session_map,
                               _session_key(user_id, working_directory))
    /\ UNCHANGED <<_client, _client_lock, calls, client_state,
                   shutdown_pc, shutdown_seen>>
    /\ UNCHANGED <<hookVars, cliVars, fnVars, fullVars>>

\* ------------------------------------------------------------ shutdown
\* shutdown(): with no client it returns at once; with one it calls stop()
\* on it and awaits that.
ShutdownBegin ==
    /\ shutdown_pc = "idle"
    /\ shutdown_seen' = TRUE
    /\ IF _client # None
       THEN /\ shutdown_pc' = "stopping"
            /\ client_state' = [client_state EXCEPT ![_client].stops = @ + 1]
       ELSE UNCHANGED <<shutdown_pc, client_state>>
    /\ UNCHANGED <<_client, _client_lock, _session_map, calls>>
    /\ UNCHANGED <<hookVars, cliVars, fnVars, fullVars>>

\* A shutdown whose clearing of the handle is skipped when stop() raises.
ClearedUnlessRaised(client, raised) == IF raised THEN client ELSE None

\* finally: self._client = None
Cleared(client, raised) == None

\* stop() returns or raises; either way "finally: self._client = None".
ShutdownEnd(raised) ==
    /\ shutdown_pc = "stopping"
    /\ shutdown_pc' = "idle"
    /\ _client' = Cleared(_client, raised)
    /\ client_state' = Referenced(client_state, _client', calls)
    /\ UNCHANGED <<_client_lock, _session_map, calls, shutdown_seen>>
    /\ UNCHANGED <<hookVars, cliVars, fnVars, fullVars>>

\* ------------------------------------------------------------ request hooks
\* _on_permission_request and _on_user_input_request, the closures that
\* execute_command registers on the session. stream_callback is the argument
\* execute_command was called with; the SDK invokes a handler once per
\* request and several invocations may be suspended at once.
Reqs == 1..MaxReqs

\* timeout=120 of the permission handler, timeout=300 of the input handler.
PermissionTimeout == 120
UserInputTimeout == 300


\* asyncio.get_event_loop().create_future()
create_future == [state |-> "pending", result |-> None]

\* future.set_result(value)
set_result(value) == [state |-> "done", result |-> value]

NewHook == [pc |-> "idle", type |-> "permission_request",
            future |-> [state |-> "none", result |-> None],
            delivered |-> "none", resolved_during |-> "never",
            timer |-> 0, timed_out |-> FALSE, ret |-> None]

\* if approved: {"kind": "approved", ...} else {"kind": "denied-...", ...}
PermissionDecision(approved) ==
    IF approved THEN [kind |-> "approved", rules |-> <<>>]
    ELSE [kind |-> "denied-interactively-by-user", rules |-> <<>>]

\* An answer that drops the user's text.
UserInputAnswerBlank(answer) == [answer |-> ""]

\* {"answer": answer, "wasFreeform": allow_freeform}; wasFreeform echoes the
\* request and is left out.
UserInputAnswer(answer) == [answer |-> answer]

\* The handler returns its dict to the SDK.
HandlerReturn(rec, value) ==
    [rec EXCEPT !.pc = "returned",
                !.ret = IF rec.type = "permission_request"
                        THEN PermissionDecision(value)
                        ELSE UserInputAnswer(value)]

\* A timeout that approves.
TimeoutValueApprove(type) == IF type = "permission_request" THEN TRUE ELSE ""

\* except asyncio.TimeoutError: approved = False / answer = ""
TimeoutValue(type) == IF type = "permission_request" THEN FALSE ELSE ""

\* A handler without channel that denies.
AutoValueDeny(type) == IF type = "permission_request" THEN FALSE ELSE "no"

\* No stream_callback: future.set_result(True) / future.set_result("")
AutoValue(type) == IF type = "permission_request" THEN TRUE ELSE ""

\* await asyncio.wait_for(asyncio.shield(future), timeout): a future that is
\* already done yields its result without suspending; otherwise the handler
\* suspends with the timer armed.
wait_for(rec) ==
    IF rec.future.state = "done"
    THEN HandlerReturn(rec, rec.future.result)
    ELSE [rec EXCEPT !.pc = "wait_for",
                     !.timer = IF rec.type = "permission_request"
                               THEN PermissionTimeout ELSE UserInputTimeout]

\* The handler from its entry to its first suspension. With a callback the
\* update carrying the new future is handed to it and the handler awaits the
\* callback's coroutine; without one the future is resolved on the spot.
HandlerBegin(r, type) ==
    /\ hooks[r].pc = "idle"
    /\ \A q \in Reqs : q < r => hooks[q].pc # "idle"
    /\ LET rec == [NewHook EXCEPT !.type = type, !.future = create_future]
       IN  hooks' = [hooks EXCEPT ![r] =
              IF stream_callback
              THEN [rec EXCEPT !.pc = "callback", !.delivered = rec.future.state]
              ELSE wait_for([rec EXCEPT !.future = set_result(AutoValue(type)),
                                        !.resolved_during = "handler"])]
    /\ UNCHANGED <<stream_callback, sdkVars, cliVars, fnVars, fullVars>>

_on_permission_request(r) == HandlerBegin(r, "permission_request")

_on_user_input_request(r) == HandlerBegin(r, "ask_user")

\* The values the channel may resolve a request's future with.
Resolutions(type) ==
    IF type = "permission_request" THEN BOOLEAN ELSE {"", "yes", "no"}

\* A resolution of one future that all pending requests of the type share.
FutureResolvedShared(r, value) ==
    /\ hooks[r].delivered # "none"
    /\ hooks[r].future.state = "pending"
    /\ value \in Resolutions(hooks[r].type)
    /\ hooks' = [q \in Reqs |->
                   IF /\ hooks[q].type = hooks[r].type
                      /\ hooks[q].delivered # "none"
                      /\ hooks[q].future.state = "pending"
                   THEN [hooks[q] EXCEPT !.future = set_result(value),
                                         !.resolved_during = hooks[q].pc]
                   ELSE hooks[q]]
    /\ UNCHANGED <<stream_callback, sdkVars, cliVars, fnVars, fullVars>>

\* The external channel resolves the future it was handed, at any time after
\* the delivery, the handler's return included.
FutureResolved(r, value) ==
    /\ hooks[r].delivered # "none"
    /\ hooks[r].future.state = "pending"
    /\ value \in Resolutions(hooks[r].type)
    /\ hooks' = [hooks EXCEPT ![r].future = set_result(value),
                              ![r].resolved_during = hooks[r].pc]
    /\ UNCHANGED <<stream_callback, sdkVars, cliVars, fnVars, fullVars>>

\* The callback (its coroutine, if it returned one) completes.
CallbackReturns(r) ==
    /\ hooks[r].pc = "callback"
    /\ hooks' = [hooks EXCEPT ![r] = wait_for(hooks[r])]
    /\ UNCHANGED <<stream_callback, sdkVars, cliVars, fnVars, fullVars>>

\* The callback raises: nothing in the handler catches it.
CallbackRaises(r) ==
    /\ hooks[r].pc = "callback"
    /\ hooks' = [hooks EXCEPT ![r].pc = "raised"]
    /\ UNCHANGED <<stream_callback, sdkVars, cliVars, fnVars, fullVars>>

\* The future was resolved while the handler was suspended in wait_for.
WaitForDone(r) ==
    /\ hooks[r].pc = "wait_for"
    /\ hooks[r].future.state = "done"
    /\ hooks' = [hooks EXCEPT ![r] = HandlerReturn(hooks[r], hooks[r].future.result)]
    /\ UNCHANGED <<stream_callback, sdkVars, cliVars, fnVars, fullVars>>

\* A wait that cancels the future itself when it times out.
Unshielded(future) == [state |-> "cancelled", result |-> None]

\* asyncio.shield(future): the cancellation wait_for sends on a timeout stops
\* at the shield and the future stays as it is.
shield(future) == future

\* The timer fires with the future still pending: wait_for cancels the
\* shield, not the future, and raises TimeoutError, which the handler turns
\* into its default.
WaitForTimeout(r) ==
    /\ hooks[r].pc = "wait_for"
    /\ hooks[r].future.state = "pending"
    /\ hooks' = [hooks EXCEPT ![r] =
                   HandlerReturn([hooks[r] EXCEPT !.timed_out = TRUE,
                                                  !.future = shield(@)],
                                 TimeoutValue(hooks[r].type))]
    /\ UNCHANGED <<stream_callback, sdkVars, cliVars, fnVars, fullVars>>

\* ------------------------------------------------------------ _build_command
\* The command line is a list of arguments; a text argument is kept whole.
\* if hasattr(config, "copilot_binary_path") and config.copilot_binary_path
_get_copilot_binary(copilot_binary_path) ==
    IF Truthy(copilot_binary_path) THEN copilot_binary_path ELSE "copilot"

\* A resume decision that does not look at the session id.
ResumeRequestedAnyId(session_id, continue_session) == continue_session

\* if continue_session and session_id
ResumeRequested(session_id, continue_session) ==
    continue_session /\ Truthy(session_id)

\* A command builder that appends the resume option after the prompt.
_build_command_resume_last(copilot_binary_path, prompt, session_id, continue_session, model) ==
    <<_get_copilot_binary(copilot_binary_path)>>
      \o <<"-p", prompt>>
      \o (IF ResumeRequested(session_id, continue_session)
          THEN <<"--resume", session_id>> ELSE <<>>)
      \o <<"--allow-all">>
      \o <<"-s">>
      \o (IF Truthy(model) THEN <<"--model", model>> ELSE <<>>)

\* cmd = [binary]; --resume <id> when continuing a known session; -p prompt;
\* --allow-all; -s; --model <model> when a model is given.
_build_command(copilot_binary_path, prompt, session_id, continue_session, model) ==
    <<_get_copilot_binary(copilot_binary_path)>>
      \o (IF ResumeRequested(session_id, continue_session)
          THEN <<"--resume", session_id>> ELSE <<>>)
      \o <<"-p", prompt>>
      \o <<"--allow-all">>
      \o <<"-s">>
      \o (IF Truthy(model) THEN <<"--model", model>> ELSE <<>>)

\* The arguments _build_command is applied to.
BuildInputs ==
    [copilot_binary_path : {None, "/opt/copilot"},
     prompt : {"hi", "--resume"},
     session_id : {None, "", "s1", "s2"},
     continue_session : BOOLEAN,
     model : {"", "gpt-5-mini"}]

\* _build_command is called on the arguments drawn.
BuildCommand ==
    /\ build.cmd = <<>>
    /\ build' = [build EXCEPT !.cmd =
                   _build_command(build.args.copilot_binary_path,
                                  build.args.prompt, build.args.session_id,
                                  build.args.continue_session, build.args.model)]
    /\ UNCHANGED <<find, event, hook_input, sdkVars, hookVars, cliVars, fullVars>>

\* ------------------------------------------------------------ _find_session_id_for_directory
\* The session-state directory as the scan sees it. The directory is
\* missing, listable, or exists but cannot be listed (iterdir raises). A
\* listed entry is a plain file, a directory without workspace.yaml, a
\* directory whose workspace.yaml cannot be opened or parsed into a mapping,
\* or a directory whose workspace.yaml loads ("ok") with cwd, updated_at, id.
\* A path is its list of components; text read from the file may carry an
\* empty last component (a trailing slash). updated_at is text compared as
\* text: the stamps are numbered in that order, 0 standing for "".
MaxEntries == 2

DiskEntries ==
    [kind : {"file", "no_workspace", "unloadable"}, cwd : {<<>>},
     updated_at : {0}, id : {""}]
      \cup [kind : {"ok"}, cwd : {<<"w1">>, <<"w1", "">>, <<"w2">>},
            updated_at : {0, 1, 2}, id : {"", "a", "b"}]

Listings == UNION {[1..n -> DiskEntries] : n \in 0..MaxEntries}

\* Path(cwd): empty components are dropped.
Path(text) == SelectSeq(text, LAMBDA part : part # "")

\* A comparison that prefers the older entry.
IsOlder(updated_at, best) == best = <<>> \/ updated_at < best[2]

\* best_updated_at is None or updated_at > best_updated_at
IsNewer(updated_at, best) == best = <<>> \/ updated_at > best[2]

\* The loop over iterdir(), from entry i on; best is <<>> or <<id, updated_at>>.
RECURSIVE ScanFrom(_, _, _, _)
ScanFrom(entries, i, working_directory, best) ==
    IF i > Len(entries)
    THEN IF best = <<>> THEN None ELSE best[1]
    ELSE LET e == entries[i]
         IN  IF /\ e.kind = "ok"
                /\ Path(e.cwd) = working_directory
                /\ e.id # ""
                /\ IsNewer(e.updated_at, best)
             THEN ScanFrom(entries, i + 1, working_directory,
                           <<e.id, e.updated_at>>)
             ELSE ScanFrom(entries, i + 1, working_directory, best)

\* Returns the id found or None; "OSError" stands for the exception that
\* leaves the function when the directory cannot be listed.
_find_session_id_for_directory(dir, entries, working_directory) ==
    IF dir = "missing" THEN None
    ELSE IF dir = "unreadable" THEN "OSError"
    ELSE ScanFrom(entries, 1, working_directory, <<>>)

WorkingDirectory == <<"w1">>

\* The function is called on the disk drawn.
FindSessionId ==
    /\ find.result = "unset"
    /\ find' = [find EXCEPT !.result =
                  _find_session_id_for_directory(find.dir, find.entries,
                                                 find.working_directory)]
    /\ UNCHANGED <<build, event, hook_input, sdkVars, hookVars, cliVars, fullVars>>

\* ------------------------------------------------------------ CLI subprocesses
\* CopilotProcessManager.execute_command and kill_all_processes. An
\* invocation p spawns one subprocess and registers it under its own
\* process_id (a uuid); both are named p.
Procs == 1..MaxProcs

NewProc == [pc |-> "idle", cmd |-> <<>>, proc |-> "none", kills |-> {},
            outcome |-> "none", message |-> None, content |-> None,
            session_id |-> None, updates |-> 0]

\* A pop that leaves the table as it is.
UnregisterNothing(table, p) == table

\* dict.pop(process_id, None) on the insertion-ordered table.
Unregister(table, p) == SelectSeq(table, LAMBDA q : q # p)

Registered(p) == \E i \in 1..Len(active_processes) : active_processes[i] = p

\* The invocation ends with the given outcome; "finally" unregisters it.
CliEnd(p, outcome) ==
    /\ cli' = [cli EXCEPT ![p].pc = IF outcome = "response" THEN "returned"
                                    ELSE "raised",
                          ![p].outcome = outcome]
    /\ active_processes' = Unregister(active_processes, p)

\* The session-state directory as a lookup of execute_command finds it.
LookupDisks ==
    {[dir |-> "missing", entries |-> <<>>],
     [dir |-> "unreadable", entries |-> <<>>],
     [dir |-> "listable", entries |-> <<>>],
     [dir |-> "listable",
      entries |-> <<[kind |-> "ok", cwd |-> WorkingDirectory,
                     updated_at |-> 1, id |-> "a"]>>]}

\* self._find_session_id_for_directory(working_directory)
Lookup(disk) ==
    _find_session_id_for_directory(disk.dir, disk.entries, WorkingDirectory)

\* A resolution that looks the session up for every continuation.
ResolvedSessionIdByLookup(session_id, continue_session, disk) ==
    IF continue_session THEN Lookup(disk) ELSE session_id

\* resolved_session_id: the session_id given or, for a continuation without
\* one, the id the lookup finds.
ResolvedSessionId(session_id, continue_session, disk) ==
    IF continue_session /\ ~Truthy(session_id) THEN Lookup(disk)
    ELSE session_id

CliSessionIds == {None, "", "s1"}

\* execute_command is called: the session id is resolved, the command is
\* built and the coroutine awaits create_subprocess_exec. An exception of the
\* lookup leaves the call before its try statement.
CliBegin(p, session_id, continue_session, disk) ==
    /\ cli[p].pc = "idle"
    /\ \A q \in Procs : q < p => cli[q].pc # "idle"
    /\ LET resolved == ResolvedSessionId(session_id, continue_session, disk)
       IN  cli' = IF resolved = "OSError"
                  THEN [cli EXCEPT ![p].pc = "raised", ![p].outcome = "OSError"]
                  ELSE [cli EXCEPT ![p].pc = "spawn",
                                   ![p].cmd = _build_command(None, "hi",
                                                resolved, continue_session,
                                                "gpt-5-mini")]
    /\ UNCHANGED <<active_processes, kill_all, sdkVars, hookVars, fnVars, fullVars>>

\* The subprocess is created and registered; communicate() is awaited under
\* wait_for.
SpawnOk(p) ==
    /\ cli[p].pc = "spawn"
    /\ cli' = [cli EXCEPT ![p].pc = "communicate", ![p].proc = "running"]
    /\ active_processes' = Append(active_processes, p)
    /\ UNCHANGED <<kill_all, sdkVars, hookVars, fnVars, fullVars>>

\* create_subprocess_exec raises (e.g. the binary is missing): re-raised.
SpawnFail(p) ==
    /\ cli[p].pc = "spawn"
    /\ CliEnd(p, "OSError")
    /\ UNCHANGED <<kill_all, sdkVars, hookVars, fnVars, fullVars>>

\* The subprocess exits, by itself or because it was killed.
ProcessExits(p) ==
    /\ cli[p].proc = "running"
    /\ cli' = [cli EXCEPT ![p].proc = "exited"]
    /\ UNCHANGED <<active_processes, kill_all, sdkVars, hookVars, fnVars, fullVars>>

\* Output text is a list of characters, " " standing for whitespace.
RECURSIVE LStrip(_)
LStrip(text) ==
    IF text # <<>> /\ Head(text) = " " THEN LStrip(Tail(text)) ELSE text

RECURSIVE RStrip(_)
RStrip(text) ==
    IF text # <<>> /\ text[Len(text)] = " "
    THEN RStrip(SubSeq(text, 1, Len(text) - 1)) ELSE text

\* str.strip()
Strip(text) == RStrip(LStrip(text))

\* A failure test on the raw stdout.
FailedUnstripped(return_code, stdout) == return_code # 0 /\ stdout = <<>>

\* if return_code != 0 and not stdout.strip()
Failed(return_code, stdout) == return_code # 0 /\ Strip(stdout) = <<>>

\* error_msg = stderr.strip() or f"Copilot exited with code {return_code}";
\* the message of the ClaudeProcessError is f"Copilot error: {error_msg}".
ErrorMessage(return_code, stderr) ==
    <<"Copilot error: ",
      IF Strip(stderr) # <<>> THEN Strip(stderr)
      ELSE <<"Copilot exited with code ", return_code>>>>

ReturnCodes == {0, 1}
Stdouts == {<<>>, <<" ">>, <<" ", "o">>}
Stderrs == {<<>>, <<" ">>, <<"e", " ">>}

\* The stream_callback argument: None; a coroutine function, whose coroutine
\* create_task schedules; a plain function, which runs and returns None, so
\* that create_task raises TypeError; a plain function that raises.
Callbacks == {"none", "async", "plain", "raises"}

\* The update reaches the callback unless there is none or calling it raises;
\* whatever is raised inside the try is swallowed.
Delivered(callback) == IF callback \in {"async", "plain"} THEN 1 ELSE 0

\* The code after communicate() has returned, to the end of the invocation:
\* the failure test, the update, the lookup of the new session id, the
\* response. An exception of the lookup is re-raised by "except Exception".
Completed(rec, return_code, stdout, stderr, callback, disk) ==
    IF Failed(return_code, stdout)
    THEN [rec EXCEPT !.pc = "raised", !.outcome = "ClaudeProcessError",
                     !.message = ErrorMessage(return_code, stderr)]
    ELSE LET found == Lookup(disk)
         IN  IF found = "OSError"
             THEN [rec EXCEPT !.pc = "raised", !.outcome = "OSError",
                              !.updates = Delivered(callback)]
             ELSE [rec EXCEPT !.pc = "returned", !.outcome = "response",
                              !.updates = Delivered(callback),
                              !.content = Strip(stdout),
                              !.session_id = IF Truthy(found) THEN found
                                             ELSE ""]

\* communicate() returns after the subprocess has exited. stream_callback is
\* an argument of the call that is read only here.
CommunicateDone(p, return_code, stdout, stderr, callback, disk) ==
    /\ cli[p].pc = "communicate"
    /\ cli[p].proc = "exited"
    /\ cli[p].kills # {} => return_code # 0
    /\ cli' = [cli EXCEPT ![p] = Completed(cli[p], return_code, stdout,
                                           stderr, callback, disk)]
    /\ active_processes' = Unregister(active_processes, p)
    /\ UNCHANGED <<kill_all, sdkVars, hookVars, fnVars, fullVars>>

\* process.kill(): ProcessLookupError once the process has exited.
KillRaises(proc) == proc # "running"

\* wait_for raises TimeoutError with communicate() still pending. If the
\* process is registered it is killed and its exit awaited; then (or at
\* once, if it is not registered) ClaudeTimeoutError is raised.
CommunicateTimeout(p) ==
    /\ cli[p].pc = "communicate"
    /\ IF Registered(p)
       THEN IF KillRaises(cli[p].proc)
            THEN CliEnd(p, "ProcessLookupError")
            ELSE /\ cli' = [cli EXCEPT ![p].pc = "kill_wait",
                                       ![p].kills = @ \cup {"execute_command"}]
                 /\ UNCHANGED active_processes
       ELSE CliEnd(p, "ClaudeTimeoutError")
    /\ UNCHANGED <<kill_all, sdkVars, hookVars, fnVars, fullVars>>

\* The killed subprocess has exited: wait() returns, ClaudeTimeoutError.
KillWaitDone(p) ==
    /\ cli[p].pc = "kill_wait"
    /\ cli[p].proc = "exited"
    /\ CliEnd(p, "ClaudeTimeoutError")
    /\ UNCHANGED <<kill_all, sdkVars, hookVars, fnVars, fullVars>>

\* The task running execute_command is cancelled at one of its awaits:
\* CancelledError passes every except clause, "finally" unregisters.
Cancelled(p) ==
    /\ cli[p].pc \in {"spawn", "communicate", "kill_wait"}
    /\ CliEnd(p, "CancelledError")
    /\ UNCHANGED <<kill_all, sdkVars, hookVars, fnVars, fullVars>>

\* The loop of kill_all_processes from its current position to its next
\* suspension: entries whose kill() raises are logged and skipped, the first
\* one that is killed is then awaited. Yields the process awaited (0 when
\* the loop is over) and the entries still to visit.
RECURSIVE KillLoop(_, _)
KillLoop(todo, procs) ==
    IF todo = <<>> THEN [wait |-> 0, todo |-> <<>>]
    ELSE IF KillRaises(procs[Head(todo)].proc) THEN KillLoop(Tail(todo), procs)
    ELSE [wait |-> Head(todo), todo |-> Tail(todo)]

\* self.active_processes.clear()
Clear(table, snapshot) == <<>>

\* kill_all_processes from position todo: up to the next wait(), or to the
\* end, where the table is cleared.
KillAllRun(todo, snapshot) ==
    LET step == KillLoop(todo, cli)
    IN  IF step.wait = 0
        THEN /\ kill_all' = [pc |-> "idle", wait |-> 0, todo |-> <<>>,
                             snapshot |-> <<>>]
             /\ active_processes' = Clear(active_processes, snapshot)
             /\ UNCHANGED cli
        ELSE /\ kill_all' = [pc |-> "wait", wait |-> step.wait,
                             todo |-> step.todo, snapshot |-> snapshot]
             /\ cli' = [cli EXCEPT ![step.wait].kills =
                                       @ \cup {"kill_all_processes"}]
             /\ UNCHANGED active_processes

\* list(self.active_processes.items()): the entries the loop of the call
\* under way iterates over; for a call about to begin, the table as it is.
KillAllSnapshot ==
    IF kill_all.pc = "wait" THEN kill_all.snapshot ELSE active_processes

\* kill_all_processes is called: it iterates over a snapshot of the table.
kill_all_processes ==
    /\ kill_all.pc = "idle"
    /\ KillAllRun(active_processes, active_processes)
    /\ UNCHANGED <<sdkVars, hookVars, fnVars, fullVars>>

\* The process kill_all_processes is waiting for has exited.
KillAllWaitDone ==
    /\ kill_all.pc = "wait"
    /\ cli[kill_all.wait].proc = "exited"
    /\ KillAllRun(kill_all.todo, kill_all.snapshot)
    /\ UNCHANGED <<sdkVars, hookVars, fnVars, fullVars>>

\* ------------------------------------------------------------ execute_full
\* CopilotProcessManager.execute_full: the SDK path on a manager made for
\* the call, then the CLI path if the SDK path raised. The two paths are
\* taken by their outcomes: what CopilotSDKManager.execute_command and
\* CopilotProcessManager.execute_command can return or raise.
MaxFull == 2
Fulls == 1..MaxFull

\* What the SDK path can raise: the two wrapped kinds and the raw error of
\* the client start-up; CancelledError when the task is cancelled meanwhile.
SdkRaised == {"ClaudeTimeoutError", "ClaudeProcessError", "StartError",
              "CancelledError"}

\* What the CLI path can raise.
CliRaised == {"ClaudeTimeoutError", "ClaudeProcessError", "OSError",
              "ProcessLookupError", "CancelledError"}

\* sdk_manager = CopilotSDKManager(self.config): no client, an empty map.
NewManager == [_client |-> None, _session_map |-> [x \in {} |-> None]]

NewFull == [pc |-> "idle", session_id |-> None, continue_session |-> FALSE,
            sdk_manager |-> NewManager, client_starts |-> 0, sdk_op |-> [op |-> "none", id |-> None],
            sdk_runs |-> 0, sdk |-> "none", cli_runs |-> 0, cli |-> "none",
            outcome |-> "none", response_session_id |-> None]

\* The one (user, directory) pair the execute_full calls are made for.
FullKey == _session_key(1, "/w1")

\* What the manager's execute_command asks of the SDK first: the session id
\* is resolved against the manager's map and resumed or a session created.
FirstSdkOp(manager, session_id, continue_session) ==
    LET sid == ResolveSessionId(session_id, continue_session,
                                DictGet(manager._session_map, FullKey))
    IN  IF WantsResume(sid, continue_session)
        THEN [op |-> "resume_session", id |-> sid]
        ELSE [op |-> "create_session", id |-> None]

\* A fallback for timeouts only.
IsTimeout(e) == e = "ClaudeTimeoutError"

\* except Exception: CancelledError is not an Exception.
IsException(e) == e # "CancelledError"

\* execute_full is called: a CopilotSDKManager is constructed and its
\* execute_command awaited, which constructs and starts a client when the
\* manager has none and then opens the session.
execute_full(f, session_id, continue_session) ==
    /\ full[f].pc = "idle"
    /\ \A g \in Fulls : g < f => full[g].pc # "idle"
    /\ LET manager == NewManager
           starts == IF ClientMissing(manager._client) THEN 1 ELSE 0
       IN  full' = [full EXCEPT
              ![f].pc = "sdk", ![f].sdk_runs = @ + 1,
              ![f].session_id = session_id,
              ![f].continue_session = continue_session,
              ![f].sdk_manager = [manager EXCEPT !._client = "client"],
              ![f].client_starts = starts,
              ![f].sdk_op = FirstSdkOp(manager, session_id, continue_session)]
    /\ UNCHANGED <<sdkVars, hookVars, cliVars, fnVars>>

\* The SDK path returns: the session is the one resumed or, when there was
\* nothing to resume or the resume failed, a new one; the manager stores its
\* id under the key; the response is converted and returned.
SdkPathReturns(f, resumed) ==
    /\ full[f].pc = "sdk"
    /\ LET session == IF full[f].sdk_op.op = "resume_session" /\ resumed
                      THEN full[f].sdk_op.id ELSE "f" \o ToString(f)
       IN  full' = [full EXCEPT
              ![f].pc = "returned", ![f].sdk = "response",
              ![f].outcome = "response",
              ![f].sdk_manager._session_map = StoreSession(@, FullKey, session),
              ![f].response_session_id = session]
    /\ UNCHANGED <<sdkVars, hookVars, cliVars, fnVars>>

\* The SDK path raises e: an Exception starts the CLI path, anything else
\* leaves execute_full.
SdkPathRaises(f, e) ==
    /\ full[f].pc = "sdk"
    /\ full' = [full EXCEPT ![f] =
                  IF IsException(e)
                  THEN [@ EXCEPT !.pc = "cli", !.sdk = e, !.cli_runs = @ + 1]
                  ELSE [@ EXCEPT !.pc = "raised", !.sdk = e, !.outcome = e]]
    /\ UNCHANGED <<sdkVars, hookVars, cliVars, fnVars>>

\* The CLI path returns: its response is converted and returned.
CliPathReturns(f) ==
    /\ full[f].pc = "cli"
    /\ full' = [full EXCEPT ![f].pc = "returned", ![f].cli = "response",
                            ![f].outcome = "response"]
    /\ UNCHANGED <<sdkVars, hookVars, cliVars, fnVars>>

\* The CLI path raises e inside the except clause: e leaves execute_full.
CliPathRaises(f, e) ==
    /\ full[f].pc = "cli"
    /\ full' = [full EXCEPT ![f].pc = "raised", ![f].cli = e,
                            ![f].outcome = e]
    /\ UNCHANGED <<sdkVars, hookVars, cliVars, fnVars>>

\* ------------------------------------------------------------ event_handler
\* The closure execute_command registers with session.on. The type of an
\* event is a text, kept as the list of its characters.
\* str.upper(), restricted to the ASCII letters.
Upper(text) ==
    LET lower == <<"a", "b", "c", "d", "e", "f", "g", "h", "i", "j", "k", "l",
                   "m", "n", "o", "p", "q", "r", "s", "t", "u", "v", "w", "x",
                   "y", "z">>
        upper == <<"A", "B", "C", "D", "E", "F", "G", "H", "I", "J", "K", "L",
                   "M", "N", "O", "P", "Q", "R", "S", "T", "U", "V", "W", "X",
                   "Y", "Z">>
        UpperChar(ch) ==
            IF \E i \in 1..Len(lower) : lower[i] = ch
            THEN upper[CHOOSE i \in 1..Len(lower) : lower[i] = ch]
            ELSE ch
    IN [i \in 1..Len(text) |-> UpperChar(text[i])]

\* needle in text
Contains(text, needle) ==
    \E i \in 0..(Len(text) - Len(needle)) :
        SubSeq(text, i + 1, i + Len(needle)) = needle

\* The texts of the event types, as sequences of characters: those the handler
\* compares with, the dotted name of the final message, an event of another
\* kind, the text str() gives for a member of the SDK's enumeration, and the
\* needle of the containment test.
EventType ==
    [assistant_message |->
        <<"a", "s", "s", "i", "s", "t", "a", "n", "t", "_", "m", "e", "s",
        "s", "a", "g", "e">>,
     assistant_dot_message |->
        <<"a", "s", "s", "i", "s", "t", "a", "n", "t", ".", "m", "e", "s",
        "s", "a", "g", "e">>,
     message_delta |->
        <<"a", "s", "s", "i", "s", "t", "a", "n", "t", ".", "m", "e", "s",
        "s", "a", "g", "e", "_", "d", "e", "l", "t", "a">>,
     reasoning_delta |->
        <<"a", "s", "s", "i", "s", "t", "a", "n", "t", ".", "r", "e", "a",
        "s", "o", "n", "i", "n", "g", "_", "d", "e", "l", "t", "a">>,
     tool_use |-> <<"t", "o", "o", "l", "_", "u", "s", "e">>,
     tool_result |-> <<"t", "o", "o", "l", "_", "r", "e", "s", "u", "l", "t">>,
     session_idle |->
        <<"s", "e", "s", "s", "i", "o", "n", ".", "i", "d", "l", "e">>,
     enum_message_delta |->
        <<"S", "e", "s", "s", "i", "o", "n", "E", "v", "e", "n", "t", "T",
        "y", "p", "e", ".", "A", "S", "S", "I", "S", "T", "A", "N", "T", "_",
        "M", "E", "S", "S", "A", "G", "E", "_", "D", "E", "L", "T", "A">>,
     ASSISTANT |-> <<"A", "S", "S", "I", "S", "T", "A", "N", "T">>]

\* The event types the SDK sends: the texts the handler compares with, the
\* dotted name of the final message, an event of another kind, and the text
\* str() gives for a member of the SDK's enumeration.
EventTypes ==
    {EventType.assistant_message, EventType.assistant_dot_message,
     EventType.message_delta, EventType.reasoning_delta, EventType.tool_use,
     EventType.tool_result, EventType.session_idle,
     EventType.enum_message_delta}

\* event.data: the attributes the handler reads; None for one that is missing.
EventData == [content : {None, "", "c"}, delta_content : {None, "", "d"},
              tool_name : {None, "t"}]

\* getattr(data, name, None) or ""
OrEmpty(x) == IF Truthy(x) THEN x ELSE ""

\* event_type == "assistant_message" or "ASSISTANT" in event_type.upper()
IsFinalMessage(event_type) ==
    event_type = EventType.assistant_message
    \/ Contains(Upper(event_type), EventType.ASSISTANT)

\* event_handler(event): the updates handed to stream_callback, in order. The
\* branches are tried in the order of the if / elif chain.
event_handler(event_type, data, callback) ==
    IF IsFinalMessage(event_type)
    THEN IF OrEmpty(data.content) # "" /\ callback
         THEN <<[type |-> "result", content |-> data.content]>> ELSE <<>>
    ELSE IF event_type = EventType.message_delta
    THEN IF OrEmpty(data.delta_content) # "" /\ callback
         THEN <<[type |-> "result", content |-> data.delta_content]>> ELSE <<>>
    ELSE IF event_type = EventType.reasoning_delta
    THEN IF OrEmpty(data.delta_content) # "" /\ callback
         THEN <<[type |-> "reasoning", content |-> data.delta_content]>> ELSE <<>>
    ELSE IF event_type \in {EventType.tool_use, EventType.tool_result}
    THEN IF OrEmpty(data.tool_name) # "" /\ callback
         THEN <<[type |-> "tool", content |-> data.tool_name]>> ELSE <<>>
    ELSE <<>>

\* content_parts after the event: the final message's content is appended.
ContentParts(event_type, data) ==
    IF IsFinalMessage(event_type) /\ OrEmpty(data.content) # ""
    THEN <<data.content>> ELSE <<>>

NoEvent == [type |-> EventType.session_idle,
            data |-> [content |-> None, delta_content |-> None,
                      tool_name |-> None],
            stream_callback |-> FALSE, handled |-> FALSE,
            updates |-> <<>>, content_parts |-> <<>>]

\* The SDK delivers the event to the handler.
HandleEvent ==
    /\ ~event.handled
    /\ event' = [event EXCEPT
                   !.handled = TRUE,
                   !.updates = event_handler(event.type, event.data,
                                             event.stream_callback),
                   !.content_parts = ContentParts(event.type, event.data)]
    /\ UNCHANGED <<build, find, hook_input, sdkVars, hookVars, cliVars, fullVars>>

\* ------------------------------------------------------------ on_error_occurred
\* The error hook execute_command registers on a session. The error text is
\* kept as the list of its characters; an attribute the input lacks is absent
\* from hook_input.has.
\* str.lower(), restricted to the ASCII letters.
Lower(text) ==
    LET lower == <<"a", "b", "c", "d", "e", "f", "g", "h", "i", "j", "k", "l",
                   "m", "n", "o", "p", "q", "r", "s", "t", "u", "v", "w", "x",
                   "y", "z">>
        upper == <<"A", "B", "C", "D", "E", "F", "G", "H", "I", "J", "K", "L",
                   "M", "N", "O", "P", "Q", "R", "S", "T", "U", "V", "W", "X",
                   "Y", "Z">>
        LowerChar(ch) ==
            IF \E i \in 1..Len(upper) : upper[i] = ch
            THEN lower[CHOOSE i \in 1..Len(upper) : upper[i] = ch]
            ELSE ch
    IN [i \in 1..Len(text) |-> LowerChar(text[i])]

\* ("rate limit", "rate_limit", "too many requests", "429")
RateLimitKeywords ==
    <<<<"r", "a", "t", "e", " ", "l", "i", "m", "i", "t">>,
      <<"r", "a", "t", "e", "_", "l", "i", "m", "i", "t">>,
      <<"t", "o", "o", " ", "m", "a", "n", "y", " ", "r", "e", "q", "u",
      "e", "s", "t", "s">>,
      <<"4", "2", "9">>>>

\* any(kw in error_msg.lower() for kw in (...))
is_rate_limit(error_msg) ==
    \E k \in 1..Len(RateLimitKeywords) :
        Contains(Lower(error_msg), RateLimitKeywords[k])

\* The error texts the hook is applied to: each marker, in mixed case or
\* inside a longer text; texts that come close to a marker without holding
\* one; a text without any; the empty text.
ErrorText ==
    [rate_limit |->
        <<"R", "a", "t", "e", " ", "L", "i", "m", "i", "t", " ", "h", "i",
        "t">>,
     rate_underscore |->
        <<"R", "A", "T", "E", "_", "L", "I", "M", "I", "T">>,
     too_many_requests |->
        <<"T", "o", "o", " ", "M", "a", "n", "y", " ", "R", "e", "q", "u",
        "e", "s", "t", "s">>,
     http_429 |->
        <<"H", "T", "T", "P", " ", "4", "2", "9">>,
     two_spaces |->
        <<"r", "a", "t", "e", " ", " ", "l", "i", "m", "i", "t">>,
     split_429 |->
        <<"4", " ", "2", "9">>,
     boom |-> <<"b", "o", "o", "m">>,
     empty |-> <<>>]

ErrorTexts == {ErrorText[n] : n \in DOMAIN ErrorText}

ErrorContexts == {"", "tool_execution", "TOOL_EXECUTION", "model_call"}

\* getattr(hook_input, name, default)
GetAttr(input, name, default) ==
    IF name \in input.has THEN input[name] ELSE default

\* A hook that looks at recoverable tool errors before the rate limit.
_on_error_occurred_skip_first(input) ==
    LET error_msg == GetAttr(input, "error", <<>>)
        error_context == GetAttr(input, "errorContext", "")
        recoverable == GetAttr(input, "recoverable", FALSE)
    IN  IF recoverable /\ error_context = "tool_execution"
        THEN [errorHandling |-> "skip"]
        ELSE IF is_rate_limit(error_msg)
        THEN [errorHandling |-> "retry", retryCount |-> 3]
        ELSE [errorHandling |-> "abort",
              userNotification |-> <<"Copilot error (", error_context, "): ",
                                     error_msg>>]

\* _on_error_occurred(hook_input, _env): the decision returned to the SDK.
\* userNotification is f"Copilot error ({error_context}): {error_msg}", kept
\* as the list of its four parts.
_on_error_occurred(input) ==
    LET error_msg == GetAttr(input, "error", <<>>)
        error_context == GetAttr(input, "errorContext", "")
        recoverable == GetAttr(input, "recoverable", FALSE)
    IN  IF is_rate_limit(error_msg)
        THEN [errorHandling |-> "retry", retryCount |-> 3]
        ELSE IF recoverable /\ error_context = "tool_execution"
        THEN [errorHandling |-> "skip"]
        ELSE [errorHandling |-> "abort",
              userNotification |-> <<"Copilot error (", error_context, "): ",
                                     error_msg>>]

NoHookInput == [has |-> {}, error |-> <<>>, errorContext |-> "",
                recoverable |-> FALSE, handled |-> FALSE,
                decision |-> [errorHandling |-> "none"]]

\* The SDK calls the hook with the error.
ErrorOccurred ==
    /\ ~hook_input.handled
    /\ hook_input' = [hook_input EXCEPT
                        !.handled = TRUE,
                        !.decision = _on_error_occurred(hook_input)]
    /\ UNCHANGED <<build, find, event, sdkVars, hookVars, cliVars, fullVars>>

\* ------------------------------------------------------------ specification
InitManager ==
    /\ _client = None
    /\ _client_lock = {}
    /\ _session_map = [x \in {} |-> None]
    /\ calls = [c \in Calls |-> NewCall]
    /\ client_state = [x \in {} |-> None]
    /\ shutdown_pc = "idle"
    /\ shutdown_seen = FALSE

InitHooks == hooks = [r \in Reqs |-> NewHook]

InitCLI ==
    /\ active_processes = <<>>
    /\ cli = [p \in Procs |-> NewProc]
    /\ kill_all = [pc |-> "idle", wait |-> 0, todo |-> <<>>, snapshot |-> <<>>]

NoBuild == [args |-> [copilot_binary_path |-> None, prompt |-> "hi",
                      session_id |-> None, continue_session |-> FALSE,
                      model |-> ""],
            cmd |-> <<>>]

NoFind == [dir |-> "missing", entries |-> <<>>,
           working_directory |-> WorkingDirectory, result |-> "unset"]

InitFn ==
    /\ build = NoBuild /\ find = NoFind /\ event = NoEvent
    /\ hook_input = NoHookInput
    /\ full = [f \in Fulls |-> NewFull]

\* One CopilotSDKManager and the calls made on it.
InitSDK ==
    InitManager /\ stream_callback = FALSE /\ InitHooks /\ InitCLI /\ InitFn

NextSDK ==
    \/ \E c \in Calls, u \in Users, d \in Dirs, cont \in BOOLEAN :
         \E sid \in SessionIdArgs : ExecBegin(c, u, d, sid, cont)
    \/ \E c \in Calls : LockAcquired(c)
    \/ \E c \in Calls : StartOk(c)
    \/ \E c \in Calls : StartFail(c)
    \/ \E c \in Calls : ResumeOk(c)
    \/ \E c \in Calls : ResumeFail(c)
    \/ \E c \in Calls : CreateOk(c)
    \/ \E c \in Calls, e \in Errors : CreateFail(c, e)
    \/ \E c \in Calls : SendOk(c)
    \/ \E c \in Calls, e \in Errors : SendFail(c, e)
    \/ \E u \in Users, d \in Dirs : forget_session(u, d)
    \/ ShutdownBegin
    \/ \E raised \in BOOLEAN : ShutdownEnd(raised)

SpecSDK == InitSDK /\ [][NextSDK]_vars

\* The requests raised during one execute_command, called with or without a
\* stream_callback.
InitHook ==
    InitManager /\ stream_callback \in BOOLEAN /\ InitHooks /\ InitCLI /\ InitFn

NextHook ==
    \/ \E r \in Reqs : _on_permission_request(r)
    \/ \E r \in Reqs : _on_user_input_request(r)
    \/ \E r \in Reqs : \E value \in Resolutions(hooks[r].type) :
         FutureResolved(r, value)
    \/ \E r \in Reqs : CallbackReturns(r)
    \/ \E r \in Reqs : CallbackRaises(r)
    \/ \E r \in Reqs : WaitForDone(r)
    \/ \E r \in Reqs : WaitForTimeout(r)

SpecHook == InitHook /\ [][NextHook]_vars

\* The event loop runs what is ready: a timer that is armed fires unless the
\* wait ends before, a handler whose future is done resumes, and the
\* callback's coroutine comes to an end, returning or raising. Nothing is
\* assumed of the channel that resolves the futures.
FairHook ==
    \A r \in Reqs :
        /\ WF_vars(WaitForTimeout(r))
        /\ WF_vars(WaitForDone(r))
        /\ WF_vars(CallbackReturns(r) \/ CallbackRaises(r))

SpecHookLive == SpecHook /\ FairHook

\* One CopilotProcessManager, its invocations and kill_all_processes.
NextCLI ==
    \/ \E p \in Procs :
         CliBegin(p, None, FALSE, [dir |-> "missing", entries |-> <<>>])
    \/ \E p \in Procs : SpawnOk(p)
    \/ \E p \in Procs : SpawnFail(p)
    \/ \E p \in Procs : ProcessExits(p)
    \/ \E p \in Procs, return_code \in ReturnCodes, stdout \in Stdouts,
          disk \in {d \in LookupDisks : d.entries = <<>>} :
         CommunicateDone(p, return_code, stdout, <<>>, "none", disk)
    \/ \E p \in Procs : CommunicateTimeout(p)
    \/ \E p \in Procs : KillWaitDone(p)
    \/ \E p \in Procs : Cancelled(p)
    \/ kill_all_processes
    \/ KillAllWaitDone

SpecCLI == InitSDK /\ [][NextCLI]_vars

\* One invocation and kill_all_processes, with every output of the subprocess,
\* every stream_callback and every state of the session-state directory.
NextCLIRun ==
    \/ \E session_id \in CliSessionIds, continue_session \in BOOLEAN,
          disk \in LookupDisks :
         CliBegin(1, session_id, continue_session, disk)
    \/ SpawnOk(1)
    \/ SpawnFail(1)
    \/ ProcessExits(1)
    \/ \E return_code \in ReturnCodes, stdout \in Stdouts, stderr \in Stderrs,
          callback \in Callbacks, disk \in LookupDisks :
         CommunicateDone(1, return_code, stdout, stderr, callback, disk)
    \/ CommunicateTimeout(1)
    \/ KillWaitDone(1)
    \/ Cancelled(1)
    \/ kill_all_processes
    \/ KillAllWaitDone

SpecCLIRun == InitSDK /\ [][NextCLIRun]_vars

\* _build_command on every combination of arguments.
InitBuild ==
    /\ InitManager /\ stream_callback = FALSE /\ InitHooks /\ InitCLI
    /\ build \in [args : BuildInputs, cmd : {<<>>}]
    /\ find = NoFind /\ event = NoEvent /\ hook_input = NoHookInput
    /\ full = [f \in Fulls |-> NewFull]

NextBuild == BuildCommand

SpecBuild == InitBuild /\ [][NextBuild]_vars

\* _find_session_id_for_directory on every disk of up to MaxEntries entries.
InitFind ==
    /\ InitManager /\ stream_callback = FALSE /\ InitHooks /\ InitCLI
    /\ build = NoBuild /\ event = NoEvent /\ hook_input = NoHookInput
    /\ full = [f \in Fulls |-> NewFull]
    /\ find \in [dir : {"missing", "listable", "unreadable"}, entries : Listings,
                 working_directory : {WorkingDirectory}, result : {"unset"}]

NextFind == FindSessionId

SpecFind == InitFind /\ [][NextFind]_vars

\* event_handler on every event, with and without a stream_callback.
InitEvent ==
    /\ InitManager /\ stream_callback = FALSE /\ InitHooks /\ InitCLI
    /\ build = NoBuild /\ find = NoFind /\ full = [f \in Fulls |-> NewFull]
    /\ hook_input = NoHookInput
    /\ event \in [type : EventTypes, data : EventData,
                  stream_callback : BOOLEAN, handled : {FALSE},
                  updates : {<<>>}, content_parts : {<<>>}]

NextEvent == HandleEvent

SpecEvent == InitEvent /\ [][NextEvent]_vars

\* _on_error_occurred on every input: every text, every context, recoverable
\* or not, each attribute present or missing. An attribute that is missing
\* keeps the value of NoHookInput, which the hook does not read.
InitError ==
    /\ InitManager /\ stream_callback = FALSE /\ InitHooks /\ InitCLI
    /\ build = NoBuild /\ find = NoFind /\ event = NoEvent
    /\ full = [f \in Fulls |-> NewFull]
    /\ hook_input \in [has : SUBSET {"error", "errorContext", "recoverable"},
                       error : ErrorTexts, errorContext : ErrorContexts,
                       recoverable : BOOLEAN, handled : {FALSE},
                       decision : {NoHookInput.decision}]
    /\ \A name \in {"error", "errorContext", "recoverable"} \ hook_input.has :
          hook_input[name] = NoHookInput[name]

NextError == ErrorOccurred

SpecError == InitError /\ [][NextError]_vars

\* The execute_full invocations on one CopilotProcessManager.
NextFull ==
    \/ \E f \in Fulls, session_id \in SessionIdArgs, continue_session \in BOOLEAN :
         execute_full(f, session_id, continue_session)
    \/ \E f \in Fulls, resumed \in BOOLEAN : SdkPathReturns(f, resumed)
    \/ \E f \in Fulls, e \in SdkRaised : SdkPathRaises(f, e)
    \/ \E f \in Fulls : CliPathReturns(f)
    \/ \E f \in Fulls, e \in CliRaised : CliPathRaises(f, e)

SpecFull == InitSDK /\ [][NextFull]_vars

\* ------------------------------------------------------------ properties
KeyOf(rec) == _session_key(rec.user_id, rec.working_directory)

\* The step in which call c leaves _get_client and makes its first SDK call.
Opens(c) ==
    /\ calls[c].pc \in {"idle", "get_client", "start"}
    /\ calls'[c].pc \in {"resume_session", "create_session"}

ResumeCall(id) == [op |-> "resume_session", id |-> id]
CreateCall == [op |-> "create_session", id |-> None]

\* Call c asked to resume and the resume raised: create_session followed.
ResumeRaised(rec) == Len(rec.sdk) = 2

\* The future of request r was resolved before the handler stopped waiting.
ResolvedInTime(r) == hooks[r].resolved_during \in {"callback", "wait_for"}

\* C1: with a stream callback, a permission handler that has returned
\* returned 'approved' only if its future was resolved with True before the
\* 120s timer fired; if the future was resolved with False, or the timer
\* fired before any resolution, it returned 'denied-interactively-by-user'.
C1_PermissionDecision ==
    \A r \in Reqs :
        (/\ stream_callback
         /\ hooks[r].type = "permission_request"
         /\ hooks[r].pc = "returned")
        => /\ hooks[r].ret.kind = "approved" =>
                /\ ResolvedInTime(r)
                /\ hooks[r].future.result = TRUE
                /\ ~hooks[r].timed_out
           /\ (ResolvedInTime(r) /\ hooks[r].future.result = FALSE) =>
                hooks[r].ret.kind = "denied-interactively-by-user"
           /\ hooks[r].timed_out =>
                /\ hooks[r].timer = PermissionTimeout
                /\ ~ResolvedInTime(r)
                /\ hooks[r].ret.kind = "denied-interactively-by-user"

\* One permission request was approved by the channel while the handler
\* waited, another was denied by the timer.
C1_Witness ==
    /\ stream_callback
    /\ \E r1, r2 \in Reqs :
         /\ hooks[r1].type = "permission_request" /\ hooks[r1].pc = "returned"
         /\ hooks[r1].resolved_during = "wait_for"
         /\ hooks[r1].ret.kind = "approved"
         /\ hooks[r2].type = "permission_request" /\ hooks[r2].pc = "returned"
         /\ hooks[r2].timed_out
         /\ hooks[r2].ret.kind = "denied-interactively-by-user"

\* C2: with a stream callback, an ask-user handler that has returned
\* returned exactly the string its future was resolved with, if it was
\* resolved before the 300s timer fired, and the empty string if the timer
\* fired first.
C2_UserInputAnswer ==
    \A r \in Reqs :
        (/\ stream_callback
         /\ hooks[r].type = "ask_user"
         /\ hooks[r].pc = "returned")
        => /\ ResolvedInTime(r) =>
                /\ hooks[r].ret.answer = hooks[r].future.result
                /\ ~hooks[r].timed_out
           /\ ~ResolvedInTime(r) => hooks[r].timed_out
           /\ hooks[r].timed_out =>
                /\ hooks[r].timer = UserInputTimeout
                /\ hooks[r].ret.answer = ""

\* One ask-user request was answered "yes" by the channel, another timed out.
C2_Witness ==
    /\ stream_callback
    /\ \E r1, r2 \in Reqs :
         /\ hooks[r1].type = "ask_user" /\ hooks[r1].pc = "returned"
         /\ hooks[r1].resolved_during = "wait_for"
         /\ hooks[r1].ret.answer = "yes"
         /\ hooks[r2].type = "ask_user" /\ hooks[r2].pc = "returned"
         /\ hooks[r2].timed_out
         /\ hooks[r2].ret.answer = ""

\* C3: without a stream callback a handler never suspends (no callback, no
\* wait, no timer, no outside resolution): once invoked it has returned,
\* 'approved' for a permission request and "" for an ask-user request.
C3_AutoAnswerWithoutChannel ==
    ~stream_callback =>
        \A r \in Reqs :
            /\ hooks[r].pc \in {"idle", "returned"}
            /\ hooks[r].pc = "returned" =>
                 /\ hooks[r].delivered = "none"
                 /\ hooks[r].resolved_during = "handler"
                 /\ hooks[r].timer = 0 /\ ~hooks[r].timed_out
                 /\ hooks[r].type = "permission_request" =>
                      hooks[r].ret.kind = "approved"
                 /\ hooks[r].type = "ask_user" => hooks[r].ret.answer = ""

\* Without a callback, a permission request and an ask-user request have
\* both been answered.
C3_Witness ==
    /\ ~stream_callback
    /\ \E r1, r2 \in Reqs :
         /\ hooks[r1].type = "permission_request" /\ hooks[r1].pc = "returned"
         /\ hooks[r1].ret.kind = "approved"
         /\ hooks[r2].type = "ask_user" /\ hooks[r2].pc = "returned"
         /\ hooks[r2].ret.answer = ""

\* C4, as stated: a call with continue_session=True for a key that holds a
\* stored session id first calls resume_session with that stored id.
C4_ResumesStoredWhateverId ==
    [][\A c \in Calls :
         (/\ Opens(c)
          /\ calls'[c].continue_session
          /\ KeyOf(calls'[c]) \in DOMAIN _session_map)
         => calls'[c].sdk = <<ResumeCall(_session_map[KeyOf(calls'[c])])>>]_vars

\* C4, amended: a call with continue_session=True and no explicit session_id,
\* for a key that holds a session id stored by an earlier successful call,
\* calls resume_session with that stored id before any create_session call,
\* and create_session is added only by the step in which that resume raises.
C4_ResumesStored ==
    [][\A c \in Calls :
         /\ (/\ Opens(c)
             /\ calls'[c].continue_session
             /\ ~Truthy(calls'[c].session_id)
             /\ KeyOf(calls'[c]) \in DOMAIN _session_map)
            => calls'[c].sdk = <<ResumeCall(_session_map[KeyOf(calls'[c])])>>
         /\ (/\ calls[c].sdk # <<>>
             /\ calls[c].sdk[1].op = "resume_session"
             /\ CreateCall \in {calls'[c].sdk[i] : i \in 1..Len(calls'[c].sdk)})
            => (ResumeRaised(calls[c]) \/ ResumeFail(c))]_vars

\* A second call, with continue_session and no explicit id, is resuming the
\* session id that an earlier call for the same key returned and stored.
C4_Witness ==
    \E c1, c2 \in Calls :
        /\ calls[c1].pc = "returned"
        /\ calls[c2].pc = "resume_session"
        /\ KeyOf(calls[c1]) = KeyOf(calls[c2])
        /\ calls[c2].continue_session
        /\ ~Truthy(calls[c2].session_id)
        /\ calls[c2].sdk = <<ResumeCall(calls[c1].response_session_id)>>

\* C5, as stated: once resume_session has raised, the call does not fail.
C5_NeverFailsAfterResumeRaised ==
    [][\A c \in Calls :
         (calls[c].pc = "resume_session" \/ ResumeRaised(calls[c]))
         => calls'[c].pc # "raised"]_vars

\* C5, amended: when resume_session raises the call does not fail at that
\* point: it calls create_session, once; if that create_session returns, the
\* prompt is sent on the new session (an id different from the one that
\* failed to resume); and if the send returns, the response carries the new
\* session's id and the key's map entry becomes that id.
C5_ResumeFailureFallsBack ==
    /\ [](\A c \in Calls :
            /\ Len(calls[c].sdk) <= 2
            /\ ResumeRaised(calls[c]) =>
                 /\ calls[c].sdk[1].op = "resume_session"
                 /\ calls[c].sdk[2] = CreateCall
                 /\ calls[c].pc \in {"create_session", "send_and_wait"}
                 /\ calls[c].pc = "send_and_wait" =>
                      calls[c].session # calls[c].sdk[1].id)
    /\ [][\A c \in Calls :
            /\ (calls[c].pc = "resume_session" /\ calls'[c].pc # "send_and_wait"
                /\ calls'[c] # calls[c])
               => /\ calls'[c].pc = "create_session"
                  /\ calls'[c].sdk = Append(calls[c].sdk, CreateCall)
            /\ (ResumeRaised(calls[c]) /\ calls'[c].pc = "returned")
               => /\ calls[c].pc = "send_and_wait"
                  /\ calls'[c].outcome = "response"
                  /\ calls'[c].response_session_id = calls[c].session
                  /\ DictGet(_session_map', KeyOf(calls[c])) = calls[c].session]_vars

\* A call whose resume raised has created a new session and is sending the
\* prompt on it, while the map still holds the id that failed to resume.
C5_Witness ==
    \E c \in Calls :
        /\ ResumeRaised(calls[c])
        /\ calls[c].pc = "send_and_wait"
        /\ DictGet(_session_map, KeyOf(calls[c])) = calls[c].sdk[1].id
        /\ calls[c].session # calls[c].sdk[1].id

\* C6: forget_session(user, directory) leaves the map without an entry for
\* that key and with every other key's entry as it was; it is always
\* possible, entry or not.
C6_ForgetRemovesExactlyOneKey ==
    /\ [](\A u \in Users, d \in Dirs : ENABLED forget_session(u, d))
    /\ [][\A u \in Users, d \in Dirs :
            forget_session(u, d) =>
              /\ _session_key(u, d) \notin DOMAIN _session_map'
              /\ \A k \in Keys \ {_session_key(u, d)} :
                   /\ (k \in DOMAIN _session_map') = (k \in DOMAIN _session_map)
                   /\ DictGet(_session_map', k) = DictGet(_session_map, k)]_vars

\* A call returned for a key that has no entry any more (it was forgotten)
\* while another key's entry is still there.
C6_Witness ==
    \E c \in Calls :
        /\ calls[c].pc = "returned"
        /\ KeyOf(calls[c]) \notin DOMAIN _session_map
        /\ \E k \in DOMAIN _session_map : k # KeyOf(calls[c])

\* C7: a key that has an entry loses it only in a forget_session step for
\* that key.
C7_OnlyForgetRemoves ==
    [][\A k \in DOMAIN _session_map :
         k \notin DOMAIN _session_map' =>
           \E u \in Users, d \in Dirs :
               _session_key(u, d) = k /\ forget_session(u, d)]_vars

\* An entry is still there after a call failed and a shutdown ran.
C7_Witness ==
    /\ shutdown_seen
    /\ _client = None
    /\ \E c \in Calls : calls[c].pc = "raised" /\ KeyOf(calls[c]) \in DOMAIN _session_map

\* C8: calls for one key are not serialised: two calls in flight that both
\* created a session hold two different sessions, and a call that returns
\* leaves its own session id in the key's entry, whatever was stored there.
C8_LastCompletionWins ==
    /\ [](\A c1, c2 \in Calls :
            (/\ c1 # c2
             /\ calls[c1].pc = "send_and_wait" /\ calls[c2].pc = "send_and_wait"
             /\ calls[c1].sdk[Len(calls[c1].sdk)] = CreateCall
             /\ calls[c2].sdk[Len(calls[c2].sdk)] = CreateCall)
            => calls[c1].session # calls[c2].session)
    /\ [][\A c \in Calls :
            (calls[c].pc = "send_and_wait" /\ calls'[c].pc = "returned")
            => /\ DictGet(_session_map', KeyOf(calls[c])) = calls[c].session
               /\ calls'[c].response_session_id = calls[c].session]_vars

\* Two calls raced on one key: the second asked to continue, found no entry
\* and created its own session; the first has already returned and stored
\* its id, which the second will overwrite.
C8_Witness ==
    \E c1, c2 \in Calls :
        /\ calls[c1].pc = "returned"
        /\ calls[c2].pc = "send_and_wait"
        /\ KeyOf(calls[c1]) = KeyOf(calls[c2])
        /\ calls[c2].continue_session /\ ~Truthy(calls[c2].session_id)
        /\ calls[c2].sdk = <<CreateCall>>
        /\ DictGet(_session_map, KeyOf(calls[c1])) = calls[c1].response_session_id
        /\ calls[c2].session # calls[c1].response_session_id

\* C9: until shutdown is called, the client handle, once set, never changes,
\* no second client is constructed or started, and every call that holds a
\* client holds that one.
C9_ClientStartedOnce ==
    /\ [](~shutdown_seen =>
            /\ DOMAIN client_state \subseteq {_client}
            /\ \A c \in Calls : calls[c].client \in {None, _client})
    /\ [][(~shutdown_seen' /\ _client # None) =>
            /\ _client' = _client
            /\ client_state'[_client].state = "starting"
                 => client_state[_client].state = "starting"]_vars

\* Two calls are in flight on the one started client; no shutdown so far.
C9_Witness ==
    /\ ~shutdown_seen
    /\ _client # None
    /\ client_state[_client].state = "started"
    /\ \E c1, c2 \in Calls :
         /\ c1 # c2
         /\ calls[c1].client = _client /\ calls[c2].client = _client
         /\ calls[c1].pc = "send_and_wait" /\ calls[c2].pc = "send_and_wait"

\* C10: execute_command raises ClaudeTimeoutError only after its subprocess
\* was killed and its exit awaited: when the error is raised the subprocess
\* has exited.
C10_TimeoutKillsSubprocess ==
    \A p \in Procs :
        cli[p].outcome = "ClaudeTimeoutError" => cli[p].proc = "exited"

\* C11: an invocation that ended by cancellation after it had spawned its
\* subprocess leaves a subprocess that has exited or on which kill() was
\* invoked.
C11_CancellationKillsSubprocess ==
    \A p \in Procs :
        (cli[p].outcome = "CancelledError" /\ cli[p].proc = "running")
        => cli[p].kills # {}

\* A step in which communicate() of invocation p returns and the invocation
\* ends.
Completes(p) ==
    cli[p].pc = "communicate" /\ cli'[p].pc \in {"raised", "returned"}

\* C12: when communicate() returns a non-zero exit code and a stdout that is
\* empty after stripping, the invocation raises ClaudeProcessError, whose
\* message carries the stripped stderr, or the exit code when that is empty;
\* it returns no response and emits no stream update.
C12_FailedRunRaises ==
    [][\A p \in Procs :
         Completes(p) =>
           \A return_code \in ReturnCodes \ {0}, stdout \in Stdouts,
              stderr \in Stderrs, callback \in Callbacks, disk \in LookupDisks :
             (/\ Strip(stdout) = <<>>
              /\ CommunicateDone(p, return_code, stdout, stderr, callback, disk))
             => /\ cli'[p].pc = "raised"
                /\ cli'[p].outcome = "ClaudeProcessError"
                /\ cli'[p].message[1] = "Copilot error: "
                /\ cli'[p].message[2] =
                     IF Strip(stderr) # <<>> THEN Strip(stderr)
                     ELSE <<"Copilot exited with code ", return_code>>
                /\ cli'[p].updates = 0
                /\ cli'[p].content = NewProc.content
                /\ cli'[p].session_id = NewProc.session_id]_vars

\* An invocation failed that way with text on stderr.
C12_Witness ==
    \E p \in Procs :
        /\ cli[p].outcome = "ClaudeProcessError"
        /\ cli[p].message = <<"Copilot error: ", <<"e">>>>
        /\ cli[p].updates = 0

\* C15: when communicate() returns exit code 0, the invocation returns the
\* response with the stripped stdout, whatever the callback does and whatever
\* state the session-state directory is in.
C15_SuccessfulRunReturns ==
    [][\A p \in Procs :
         Completes(p) =>
           \A stdout \in Stdouts, callback \in Callbacks, disk \in LookupDisks :
             CommunicateDone(p, 0, stdout, <<>>, callback, disk)
             => /\ cli'[p].pc = "returned"
                /\ cli'[p].outcome = "response"
                /\ cli'[p].content = Strip(stdout)]_vars

\* C13: an execute_command on the SDK manager that raised, raised
\* ClaudeTimeoutError or ClaudeProcessError, nothing else.
C13_TwoFailureKinds ==
    \A c \in Calls :
        calls[c].pc = "raised" =>
            calls[c].outcome \in {"ClaudeTimeoutError", "ClaudeProcessError"}

\* C19: a call made with continue_session=False that has obtained the client
\* has called create_session once and nothing else on the SDK, whatever the
\* map holds for its key and whatever session_id it was given.
C19_ForceNewNeverResumes ==
    \A c \in Calls :
        (InFlight(c) /\ ~calls[c].continue_session) =>
            /\ calls[c].pc # "resume_session"
            /\ calls[c].pc \in {"create_session", "send_and_wait"} =>
                 calls[c].sdk = <<CreateCall>>

\* A call with continue_session=False and an explicit session_id, for a key
\* that holds an entry, is sending on the session it created.
C19_Witness ==
    \E c \in Calls :
        /\ ~calls[c].continue_session
        /\ Truthy(calls[c].session_id)
        /\ KeyOf(calls[c]) \in DOMAIN _session_map
        /\ calls[c].pc = "send_and_wait"
        /\ calls[c].sdk = <<CreateCall>>
        /\ calls[c].session # _session_map[KeyOf(calls[c])]

\* C20: a step of a call changes no other key's entry; the step in which
\* the call returns leaves, for its own key, the session id of the response,
\* which is the id of the session the prompt was sent on.
C20_StoresResponseSession ==
    [][\A c \in Calls :
         calls'[c] # calls[c] =>
           /\ \A k \in Keys \ {KeyOf(calls'[c])} :
                /\ (k \in DOMAIN _session_map') = (k \in DOMAIN _session_map)
                /\ DictGet(_session_map', k) = DictGet(_session_map, k)
           /\ calls'[c].pc = "returned" =>
                /\ calls'[c].response_session_id = calls[c].session
                /\ KeyOf(calls'[c]) \in DOMAIN _session_map'
                /\ _session_map'[KeyOf(calls'[c])] =
                     calls'[c].response_session_id]_vars

\* Two users have called for the same directory; each has its own entry,
\* holding the id its own call returned.
C20_Witness ==
    \E c1, c2 \in Calls :
        /\ calls[c1].pc = "returned" /\ calls[c2].pc = "returned"
        /\ calls[c1].user_id # calls[c2].user_id
        /\ calls[c1].working_directory = calls[c2].working_directory
        /\ DictGet(_session_map, KeyOf(calls[c1])) = calls[c1].response_session_id
        /\ DictGet(_session_map, KeyOf(calls[c2])) = calls[c2].response_session_id
        /\ calls[c1].response_session_id # calls[c2].response_session_id

\* The positions of '--resume' in the command that are not the prompt text
\* (the argument that follows '-p').
ResumeFlagAt(cmd) ==
    {i \in 1..Len(cmd) : cmd[i] = "--resume" /\ ~(i > 1 /\ cmd[i - 1] = "-p")}

\* C16: the command built with continue_session false, or with a session_id
\* that is None or empty, has no '--resume' option.
C16_NoResumeFlagForNewSession ==
    (/\ build.cmd # <<>>
     /\ (~build.args.continue_session \/ ~Truthy(build.args.session_id)))
    => ResumeFlagAt(build.cmd) = {}

\* A command was built with continue_session true and an empty session id,
\* for a prompt that reads '--resume'.
C16_Witness ==
    /\ build.cmd # <<>>
    /\ build.args.continue_session
    /\ build.args.session_id = ""
    /\ build.args.prompt = "--resume"
    /\ ResumeFlagAt(build.cmd) = {}

\* C17: the command built with continue_session true and a non-empty
\* session_id has '--resume' once, followed at once by that id, and the
\* '-p' option comes right after.
C17_ResumeFlagBeforePrompt ==
    (/\ build.cmd # <<>>
     /\ build.args.continue_session
     /\ Truthy(build.args.session_id))
    => \E i \in 1..Len(build.cmd) :
         /\ ResumeFlagAt(build.cmd) = {i}
         /\ i + 2 < Len(build.cmd)
         /\ build.cmd[i + 1] = build.args.session_id
         /\ build.cmd[i + 2] = "-p"
         /\ build.cmd[i + 3] = build.args.prompt
         /\ \A j \in 1..i : build.cmd[j] # "-p"

\* A command was built to continue session s1.
C17_Witness ==
    /\ build.args.continue_session
    /\ build.args.session_id = "s1"
    /\ Len(build.cmd) > 3
    /\ build.cmd[2] = "--resume" /\ build.cmd[3] = "s1" /\ build.cmd[4] = "-p"

\* The listed entries that match: loaded, cwd equal to the directory as a
\* path, id not empty.
Matching(f) ==
    {i \in 1..Len(f.entries) :
        /\ f.entries[i].kind = "ok"
        /\ Path(f.entries[i].cwd) = f.working_directory
        /\ f.entries[i].id # ""}

C14_OneFallback ==
    \A f \in Fulls :
        /\ full[f].sdk_runs <= 1 /\ full[f].cli_runs <= 1
        /\ full[f].cli_runs = 1 => full[f].sdk_runs = 1
        /\ full[f].pc \in {"cli", "returned", "raised"} =>
             (full[f].cli_runs = 1) =
                (full[f].sdk \notin {"response", "CancelledError"})
        /\ (full[f].pc = "raised" /\ full[f].cli_runs = 1) =>
             (full[f].cli \in CliRaised /\ full[f].outcome = full[f].cli)
        /\ (full[f].pc = "returned" /\ full[f].cli_runs = 1) =>
             full[f].cli = "response"

\* One call returned through the CLI after the SDK path failed; another
\* raised the error of its CLI run.
C14_Witness ==
    \E f, g \in Fulls :
        /\ full[f].pc = "returned" /\ full[f].sdk = "ClaudeProcessError"
        /\ full[f].cli = "response"
        /\ full[g].pc = "raised" /\ full[g].sdk = "ClaudeTimeoutError"
        /\ full[g].cli_runs = 1 /\ full[g].outcome = "ClaudeProcessError"

Resumes(cmd, id) ==
    \E i \in 1..(Len(cmd) - 1) : cmd[i] = "--resume" /\ cmd[i + 1] = id

\* C22: when execute_command is called, (1) with a non-empty session_id the
\* state of the session-state directory plays no part (the call goes on to
\* spawn even when the directory cannot be read) and, for a continuation,
\* the command resumes that id; (2) for a continuation without session_id the
\* command resumes the id the lookup finds, if it finds one; (3) when
\* continue_session is false the directory plays no part and the command
\* resumes nothing.
C22_SessionResolution ==
    [][\A p \in Procs :
         (cli[p].pc = "idle" /\ cli'[p].pc # "idle") =>
           \A session_id \in CliSessionIds, continue_session \in BOOLEAN,
              disk \in LookupDisks :
             CliBegin(p, session_id, continue_session, disk) =>
               /\ (Truthy(session_id) /\ continue_session)
                    => /\ cli'[p].pc = "spawn"
                       /\ Resumes(cli'[p].cmd, session_id)
               /\ (~Truthy(session_id) /\ continue_session
                      /\ disk.dir = "listable" /\ disk.entries # <<>>)
                    => /\ cli'[p].pc = "spawn"
                       /\ Resumes(cli'[p].cmd, disk.entries[1].id)
               /\ ~continue_session
                    => /\ cli'[p].pc = "spawn"
                       /\ \A i \in 1..Len(cli'[p].cmd) :
                            cli'[p].cmd[i] # "--resume"]_vars

\* An invocation resumes the session the lookup found on disk.
C22_Witness ==
    \E p \in Procs : cli[p].pc = "communicate" /\ Resumes(cli[p].cmd, "a")

\* The invocation is in flight: called, and neither returned nor raised.
CliInFlight(p) == cli[p].pc \notin {"idle", "returned", "raised"}

\* len(self.active_processes)
get_active_process_count == Len(active_processes)

\* C23: the table holds no invocation twice; every entry belongs to an
\* invocation that is in flight and has spawned its subprocess; an invocation
\* that has returned or raised has no entry; so the count is at most the
\* number of invocations in flight, and 0 when there is none.
C23_TableTracksInFlight ==
    /\ \A i, j \in 1..Len(active_processes) :
         i # j => active_processes[i] # active_processes[j]
    /\ \A i \in 1..Len(active_processes) :
         /\ CliInFlight(active_processes[i])
         /\ cli[active_processes[i]].proc # "none"
    /\ \A p \in Procs : cli[p].pc \in {"returned", "raised"} => ~Registered(p)
    /\ get_active_process_count <= Cardinality({p \in Procs : CliInFlight(p)})
    /\ (\A p \in Procs : ~CliInFlight(p)) => get_active_process_count = 0

\* One invocation has ended by a timeout and another one is registered.
C23_Witness ==
    /\ get_active_process_count = 1
    /\ \E p \in Procs : cli[p].outcome = "ClaudeTimeoutError"
    /\ \E p \in Procs : cli[p].pc = "communicate" /\ Registered(p)

\* C24: when an execute_full call begins with continue_session=True and no
\* session_id after another one has returned a response of the SDK path, it
\* asks the SDK to resume the session of that response, and the two calls
\* have started one client between them.
C24_ContinuityThroughExecuteFull ==
    [][\A f, g \in Fulls :
         (/\ full[f].pc = "returned" /\ full[f].sdk = "response"
          /\ full[g].pc = "idle" /\ full'[g].pc = "sdk"
          /\ full'[g].continue_session /\ full'[g].session_id = None)
         => /\ full'[g].sdk_op = [op |-> "resume_session",
                                  id |-> full[f].response_session_id]
            /\ full[f].client_starts + full'[g].client_starts <= 1]_vars

\* C25: with a stream_callback, an 'assistant.message_delta' event with a
\* non-empty delta_content produces exactly one update, of type 'result' and
\* carrying the delta; an 'assistant.reasoning_delta' event with a non-empty
\* delta_content produces exactly one update, of type 'reasoning' and
\* carrying the text.
C25_DeltasForwarded ==
    (/\ event.handled /\ event.stream_callback
     /\ Truthy(event.data.delta_content))
    => /\ event.type = EventType.message_delta
            => event.updates = <<[type |-> "result",
                                  content |-> event.data.delta_content]>>
       /\ event.type = EventType.reasoning_delta
            => event.updates = <<[type |-> "reasoning",
                                  content |-> event.data.delta_content]>>

\* C26: (1) the future an update carries is pending when the update is
\* delivered, and it is the one created by that invocation of the handler;
\* (2) a step that resolves the future of one request leaves every other
\* request as it was: its future, its position in the handler, its decision;
\* (3) a handler that returned on a resolution returned the value of its own
\* future.
C26_OneFuturePerRequest ==
    /\ [](\A r \in Reqs : hooks[r].delivered \in {"none", "pending"})
    /\ [][\A r \in Reqs :
             (hooks[r].pc = "idle" /\ hooks'[r].pc = "callback")
             => /\ hooks'[r].future = create_future
                /\ hooks'[r].delivered = "pending"
                /\ \A q \in Reqs \ {r} : hooks'[q] = hooks[q]]_vars
    /\ [][\A r \in Reqs :
             (/\ hooks[r].delivered # "none"
              /\ hooks[r].future.state = "pending"
              /\ hooks'[r].future.state = "done")
             => \A q \in Reqs \ {r} : hooks'[q] = hooks[q]]_vars
    /\ [](\A r \in Reqs :
             (hooks[r].pc = "returned" /\ ~hooks[r].timed_out
              /\ hooks[r].delivered # "none")
             => /\ hooks[r].future.state = "done"
                /\ hooks[r].type = "permission_request" =>
                     hooks[r].ret = PermissionDecision(hooks[r].future.result)
                /\ hooks[r].type = "ask_user" =>
                     hooks[r].ret.answer = hooks[r].future.result)

\* Two requests of one type were pending at once; the channel resolved one,
\* whose handler returned that value, and the other is still waiting.
C26_Witness ==
    \E r, q \in Reqs :
        /\ hooks[r].type = "permission_request"
        /\ hooks[q].type = "permission_request"
        /\ hooks[r].pc = "returned" /\ hooks[r].resolved_during = "wait_for"
        /\ hooks[r].ret.kind = "approved"
        /\ hooks[q].pc = "wait_for" /\ hooks[q].future.state = "pending"
        /\ hooks[q].delivered = "pending"

\* C27: every invocation of the permission or the ask-user handler
\* eventually returns its decision.
C27_HandlerReturns ==
    \A r \in Reqs : (hooks[r].pc # "idle") ~> (hooks[r].pc = "returned")

\* C28: the only step of an execute_command that changes the session map is
\* the one in which it returns its response, and it changes the entry of its
\* own key only; so a call that raises, at whatever point, has added,
\* overwritten and removed nothing. Every other change of the map is a
\* forget_session.
C28_RaisingCallLeavesMap ==
    [][_session_map' # _session_map =>
         \/ \E c \in Calls :
              /\ calls[c].pc = "send_and_wait" /\ calls'[c].pc = "returned"
              /\ \A d \in Calls \ {c} : calls'[d] = calls[d]
              /\ \A k \in Keys \ {CallKey(c)} :
                   DictGet(_session_map', k) = DictGet(_session_map, k)
         \/ /\ calls' = calls
            /\ \E k \in Keys : _session_map' = DictPop(_session_map, k)]_vars

\* A call has raised while its key holds the session an earlier call stored.
C28_Witness ==
    \E c, d \in Calls :
        /\ calls[c].pc = "raised" /\ calls[c].outcome = "ClaudeTimeoutError"
        /\ calls[d].pc = "returned" /\ CallKey(d) = CallKey(c)
        /\ DictGet(_session_map, CallKey(c)) = calls[d].response_session_id

\* C29: (1) the step in which a handler times out leaves its future pending;
\* (2) while the future of a timed-out handler is pending the channel can
\* resolve it; (3) what a handler has returned never changes afterwards, so
\* a handler that timed out has returned the denial or the empty answer
\* whatever its future was resolved with later.
C29_LateResolutionHarmless ==
    /\ [][\A r \in Reqs :
             (hooks[r].pc = "wait_for" /\ hooks'[r].timed_out)
             => hooks'[r].future = create_future]_vars
    /\ [](\A r \in Reqs :
             (hooks[r].timed_out /\ hooks[r].resolved_during = "never")
             => ENABLED FutureResolved(r, TimeoutValue(hooks[r].type)))
    /\ [][\A r \in Reqs :
             hooks[r].pc = "returned"
             => hooks'[r].pc = "returned" /\ hooks'[r].ret = hooks[r].ret]_vars
    /\ [](\A r \in Reqs :
             hooks[r].timed_out
             => /\ hooks[r].pc = "returned"
                /\ hooks[r].type = "permission_request" =>
                     hooks[r].ret.kind = "denied-interactively-by-user"
                /\ hooks[r].type = "ask_user" => hooks[r].ret.answer = "")

\* A permission handler timed out and returned the denial; afterwards the
\* channel resolved its future with True.
C29_Witness ==
    \E r \in Reqs :
        /\ hooks[r].type = "permission_request"
        /\ hooks[r].timed_out /\ hooks[r].pc = "returned"
        /\ hooks[r].resolved_during = "returned"
        /\ hooks[r].future = set_result(TRUE)
        /\ hooks[r].ret.kind = "denied-interactively-by-user"

\* C30: the client _get_client has handed to a call is one whose start()
\* completed.
C30_OnlyStartedClients ==
    \A c \in Calls :
        calls[c].pc \in {"resume_session", "create_session", "send_and_wait"}
        => client_state[calls[c].client].state = "started"

\* C31: in the step in which kill_all_processes completes and clears the
\* table, every process the step removes from the table is one the call has
\* visited in its loop, i.e. one it invoked kill() on (whether or not that
\* kill() raised); the visited processes are those of the snapshot the loop
\* iterates over. The table is empty after the step.
C31_KillAllKillsWhatItRemoves ==
    [][((kill_all_processes \/ KillAllWaitDone) /\ kill_all'.pc = "idle")
         => /\ active_processes' = <<>>
            /\ \A p \in Procs :
                 Registered(p)
                 => \E i \in 1..Len(KillAllSnapshot) : KillAllSnapshot[i] = p]_vars

\* C32: an invocation that resumed the session of an explicit session_id S
\* (its command carries "--resume" S) and returned a response, returned S as
\* the response's session_id. The ids stored in the session-state directory
\* differ from every explicit S, so a command that resumes S was given S.
C32_ResumedSessionReturned ==
    \A p \in Procs, S \in {id \in CliSessionIds : Truthy(id)} :
        (cli[p].pc = "returned" /\ Resumes(cli[p].cmd, S))
        => cli[p].session_id = S

\* C33: when communicate() returns a non-zero exit code and a stdout that is
\* not empty after stripping, the invocation raises nothing: it returns the
\* response (a CopilotResponse built without is_error, which defaults to
\* False) whose content is the stripped stdout, and the 'result' update has
\* been handed to the stream callback when one is registered and calling it
\* does not raise; this whatever state the session-state directory is in.
C33_NonZeroExitWithOutputReturns ==
    [][\A p \in Procs :
         Completes(p) =>
           \A return_code \in ReturnCodes \ {0}, stdout \in Stdouts,
              stderr \in Stderrs, callback \in Callbacks, disk \in LookupDisks :
             (/\ Strip(stdout) # <<>>
              /\ CommunicateDone(p, return_code, stdout, stderr, callback, disk))
             => /\ cli'[p].pc = "returned"
                /\ cli'[p].outcome = "response"
                /\ cli'[p].content = Strip(stdout)
                /\ callback \in {"async", "plain"} => cli'[p].updates = 1
                /\ callback = "none" => cli'[p].updates = 0]_vars

\* C34: the decision the error hook returned is one of retry, skip and abort,
\* chosen in this order: retry with retryCount 3 when the error text holds a
\* rate-limit marker in any case, also for a recoverable tool_execution error;
\* otherwise skip when the error is recoverable and its context is
\* 'tool_execution'; otherwise abort, with a user notification made of the
\* error context and the error text. The texts that hold a marker are told
\* from those that do not: 'Rate Limit hit', 'RATE_LIMIT', 'Too Many Requests'
\* and 'HTTP 429' do, 'rate  limit', '4 29', 'boom' and '' do not.
C34_ErrorHookPriorities ==
    hook_input.handled =>
        LET error_msg == GetAttr(hook_input, "error", <<>>)
            error_context == GetAttr(hook_input, "errorContext", "")
            recoverable == GetAttr(hook_input, "recoverable", FALSE)
            decision == hook_input.decision
            marked == error_msg \in {ErrorText.rate_limit,
                                     ErrorText.rate_underscore,
                                     ErrorText.too_many_requests,
                                     ErrorText.http_429}
        IN  /\ decision.errorHandling \in {"retry", "skip", "abort"}
            /\ marked <=> is_rate_limit(error_msg)
            /\ marked => decision = [errorHandling |-> "retry", retryCount |-> 3]
            /\ (~marked /\ recoverable /\ error_context = "tool_execution")
                 => decision = [errorHandling |-> "skip"]
            /\ (~marked /\ ~(recoverable /\ error_context = "tool_execution"))
                 => /\ decision.errorHandling = "abort"
                    /\ DOMAIN decision = {"errorHandling", "userNotification"}
                    /\ decision.userNotification =
                         <<"Copilot error (", error_context, "): ", error_msg>>

\* A recoverable tool_execution error whose text holds the marker in mixed
\* case was answered with retry.
C34_Witness ==
    /\ hook_input.handled
    /\ hook_input.has = {"error", "errorContext", "recoverable"}
    /\ hook_input.error = ErrorText.rate_limit
    /\ hook_input.errorContext = "tool_execution"
    /\ hook_input.recoverable
    /\ hook_input.decision = [errorHandling |-> "retry", retryCount |-> 3]
====
